---------------------------- MODULE Spec2Model ----------------------------
(***************************************************************************)
(* A state-machine model of get_RSS.py: the incremental feed merge         *)
(* (load the previous output, fetch every source with bounded retry,       *)
(* filter by keyword query, deduplicate by id, sort, truncate, write).     *)
(*                                                                         *)
(* Strings are sequences of code points (naturals), so that lower(),       *)
(* strip(), split('AND'), replace(), slicing and the control-character     *)
(* filter are computed character by character as Python computes them.    *)
(* A dict is a record; a key that a dict may lack is looked up with Get.   *)
(***************************************************************************)
EXTENDS Naturals, Sequences, FiniteSets

MaxKept == 2          \* the item cap of the model
MaxRuns == 2          \* consecutive invocations of main() that are followed
MaxQueries == 2       \* longest query list handed to match_entry in MatchSpec

\* MAX_ITEMS is 1000 in get_RSS.py; the model keeps MaxKept items, so that a
\* handful of entries is enough for the truncation to drop some
MAX_ITEMS == MaxKept

(***************************************************************************)
(* Python string primitives.  Those that loop are functions on strings:    *)
(* a function is applied to the value of its argument.                     *)
(***************************************************************************)
Str == Seq(Nat)

Range(s) == { s[i] : i \in 1..Len(s) }

Min(S) == CHOOSE x \in S : \A y \in S : x <= y

\* dict.get(key, default)
Get(d, k, default) == IF k \in DOMAIN d THEN d[k] ELSE default

\* str.lower() on ASCII: 'A'..'Z' (65..90) become 'a'..'z'
LowerChar(c) == IF c >= 65 /\ c <= 90 THEN c + 32 ELSE c

Lower[s \in Str] == [i \in 1..Len(s) |-> LowerChar(s[i])]

\* str.isspace() on ASCII: \t \n \v \f \r, the separators 28..31, and ' '
IsSpace(c) == (c >= 9 /\ c <= 13) \/ (c >= 28 /\ c <= 32)

LStrip[s \in Str] == IF s # <<>> /\ IsSpace(Head(s)) THEN LStrip[Tail(s)] ELSE s

RStrip[s \in Str] ==
    IF s # <<>> /\ IsSpace(s[Len(s)]) THEN RStrip[SubSeq(s, 1, Len(s) - 1)] ELSE s

\* str.strip()
Strip[s \in Str] == RStrip[LStrip[s]]

\* s.startswith(p)
StartsWith(s, p) == Len(p) <= Len(s) /\ SubSeq(s, 1, Len(p)) = p

\* s[n:]
Drop(s, n) == SubSeq(s, n + 1, Len(s))

\* k in s   (substring containment)
Contains[s \in Str, k \in Str] ==
    \E i \in 0..Len(s) : i + Len(k) <= Len(s) /\ SubSeq(s, i + 1, i + Len(k)) = k

\* s.split(sep), sep non-empty: cut at each occurrence found scanning left to
\* right; acc is the piece being collected
SplitFrom[s \in Str, sep \in Str, acc \in Str] ==
    IF s = <<>> THEN <<acc>>
    ELSE IF StartsWith(s, sep) THEN <<acc>> \o SplitFrom[Drop(s, Len(sep)), sep, <<>>]
    ELSE SplitFrom[Tail(s), sep, Append(acc, Head(s))]

Split[s \in Str, sep \in Str] == SplitFrom[s, sep, <<>>]

\* s.replace(old, ""), old non-empty
Remove[s \in Str, old \in Str] ==
    IF s = <<>> THEN <<>>
    ELSE IF StartsWith(s, old) THEN Remove[Drop(s, Len(old)), old]
    ELSE <<Head(s)>> \o Remove[Tail(s), old]

(***************************************************************************)
(* Text normalizer                                                         *)
(***************************************************************************)
\* JOURNAL_ABBR as <<full name, abbreviation>> pairs
JOURNAL_ABBR == {
    \* "ScienceDirect Publication: Medical Image Analysis": "MedIA"
    <<<<83,99,105,101,110,99,101,68,105,114,101,99,116,32,80,117,98,108,105,99,97,116,105,111,110,58,32,77,101,100,105,99,97,108,32,73,109,97,103,101,32,65,110,97,108,121,115,105,115>>,
      <<77,101,100,73,65>>>>,
    \* "ScienceDirect Publication: Pattern Recognition": "PR"
    <<<<83,99,105,101,110,99,101,68,105,114,101,99,116,32,80,117,98,108,105,99,97,116,105,111,110,58,32,80,97,116,116,101,114,110,32,82,101,99,111,103,110,105,116,105,111,110>>,
      <<80,82>>>>,
    \* "ScienceDirect Publication: Knowledge-Based Systems": "KBS"
    <<<<83,99,105,101,110,99,101,68,105,114,101,99,116,32,80,117,98,108,105,99,97,116,105,111,110,58,32,75,110,111,119,108,101,100,103,101,45,66,97,115,101,100,32,83,121,115,116,101,109,115>>,
      <<75,66,83>>>>,
    \* "ScienceDirect Publication: Neural Networks": "NN"
    <<<<83,99,105,101,110,99,101,68,105,114,101,99,116,32,80,117,98,108,105,99,97,116,105,111,110,58,32,78,101,117,114,97,108,32,78,101,116,119,111,114,107,115>>,
      <<78,78>>>>,
    \* "ScienceDirect Publication: Neurocomputing": "NC"
    <<<<83,99,105,101,110,99,101,68,105,114,101,99,116,32,80,117,98,108,105,99,97,116,105,111,110,58,32,78,101,117,114,111,99,111,109,112,117,116,105,110,103>>,
      <<78,67>>>>,
    \* "ScienceDirect Publication: Computers in Biology and Medicine": "CBM"
    <<<<83,99,105,101,110,99,101,68,105,114,101,99,116,32,80,117,98,108,105,99,97,116,105,111,110,58,32,67,111,109,112,117,116,101,114,115,32,105,110,32,66,105,111,108,111,103,121,32,97,110,100,32,77,101,100,105,99,105,110,101>>,
      <<67,66,77>>>>,
    \* "ScienceDirect Publication: Biomedical Signal Processing and Control": "BSPC"
    <<<<83,99,105,101,110,99,101,68,105,114,101,99,116,32,80,117,98,108,105,99,97,116,105,111,110,58,32,66,105,111,109,101,100,105,99,97,108,32,83,105,103,110,97,108,32,80,114,111,99,101,115,115,105,110,103,32,97,110,100,32,67,111,110,116,114,111,108>>,
      <<66,83,80,67>>>>,
    \* "ScienceDirect Publication: Artificial Intelligence in Medicine": "AIM"
    <<<<83,99,105,101,110,99,101,68,105,114,101,99,116,32,80,117,98,108,105,99,97,116,105,111,110,58,32,65,114,116,105,102,105,99,105,97,108,32,73,110,116,101,108,108,105,103,101,110,99,101,32,105,110,32,77,101,100,105,99,105,110,101>>,
      <<65,73,77>>>>,
    \* "ScienceDirect Publication: Engineering Applications of Artificial Intelligence": "EAAI"
    <<<<83,99,105,101,110,99,101,68,105,114,101,99,116,32,80,117,98,108,105,99,97,116,105,111,110,58,32,69,110,103,105,110,101,101,114,105,110,103,32,65,112,112,108,105,99,97,116,105,111,110,115,32,111,102,32,65,114,116,105,102,105,99,105,97,108,32,73,110,116,101,108,108,105,103,101,110,99,101>>,
      <<69,65,65,73>>>>,
    \* "ScienceDirect Publication: Expert Systems with Applications": "ESWA"
    <<<<83,99,105,101,110,99,101,68,105,114,101,99,116,32,80,117,98,108,105,99,97,116,105,111,110,58,32,69,120,112,101,114,116,32,83,121,115,116,101,109,115,32,119,105,116,104,32,65,112,112,108,105,99,97,116,105,111,110,115>>,
      <<69,83,87,65>>>>,
    \* "ScienceDirect Publication: Information Fusion": "IF"
    <<<<83,99,105,101,110,99,101,68,105,114,101,99,116,32,80,117,98,108,105,99,97,116,105,111,110,58,32,73,110,102,111,114,109,97,116,105,111,110,32,70,117,115,105,111,110>>,
      <<73,70>>>>,
    \* "ScienceDirect Publication: NeuroImage": "NI"
    <<<<83,99,105,101,110,99,101,68,105,114,101,99,116,32,80,117,98,108,105,99,97,116,105,111,110,58,32,78,101,117,114,111,73,109,97,103,101>>,
      <<78,73>>>>,
    \* "IEEE Transactions on Medical Imaging": "TMI"
    <<<<73,69,69,69,32,84,114,97,110,115,97,99,116,105,111,110,115,32,111,110,32,77,101,100,105,99,97,108,32,73,109,97,103,105,110,103>>,
      <<84,77,73>>>>,
    \* "IEEE Transactions on Pattern Analysis and Machine Intelligence": "TPAMI"
    <<<<73,69,69,69,32,84,114,97,110,115,97,99,116,105,111,110,115,32,111,110,32,80,97,116,116,101,114,110,32,65,110,97,108,121,115,105,115,32,97,110,100,32,77,97,99,104,105,110,101,32,73,110,116,101,108,108,105,103,101,110,99,101>>,
      <<84,80,65,77,73>>>>,
    \* "IEEE Transactions on Image Processing": "TIP"
    <<<<73,69,69,69,32,84,114,97,110,115,97,99,116,105,111,110,115,32,111,110,32,73,109,97,103,101,32,80,114,111,99,101,115,115,105,110,103>>,
      <<84,73,80>>>>,
    \* "IEEE Transactions on Biomedical Engineering": "TBME"
    <<<<73,69,69,69,32,84,114,97,110,115,97,99,116,105,111,110,115,32,111,110,32,66,105,111,109,101,100,105,99,97,108,32,69,110,103,105,110,101,101,114,105,110,103>>,
      <<84,66,77,69>>>>,
    \* "IEEE Journal of Biomedical and Health Informatics": "JBHI"
    <<<<73,69,69,69,32,74,111,117,114,110,97,108,32,111,102,32,66,105,111,109,101,100,105,99,97,108,32,97,110,100,32,72,101,97,108,116,104,32,73,110,102,111,114,109,97,116,105,99,115>>,
      <<74,66,72,73>>>>,
    \* "Wiley: Medical Physics: Table of Contents": "MP"
    <<<<87,105,108,101,121,58,32,77,101,100,105,99,97,108,32,80,104,121,115,105,99,115,58,32,84,97,98,108,101,32,111,102,32,67,111,110,116,101,110,116,115>>,
      <<77,80>>>>,
    \* "cs.CV updates on arXiv.org": "arXiv-CV"
    <<<<99,115,46,67,86,32,117,112,100,97,116,101,115,32,111,110,32,97,114,88,105,118,46,111,114,103>>,
      <<97,114,88,105,118,45,67,86>>>>,
    \* "eess.IV updates on arXiv.org": "arXiv-IV"
    <<<<101,101,115,115,46,73,86,32,117,112,100,97,116,101,115,32,111,110,32,97,114,88,105,118,46,111,114,103>>,
      <<97,114,88,105,118,45,73,86>>>>,
    \* "cs.LG updates on arXiv.org": "arXiv-ML"
    <<<<99,115,46,76,71,32,117,112,100,97,116,101,115,32,111,110,32,97,114,88,105,118,46,111,114,103>>,
      <<97,114,88,105,118,45,77,76>>>>
    }

\* JOURNAL_ABBR[name] where name is a key, <<>> standing for "not a key"
Lookup[name \in Str] ==
    IF \E p \in JOURNAL_ABBR : p[1] = name
    THEN <<(CHOOSE p \in JOURNAL_ABBR : p[1] = name)[2]>>
    ELSE <<>>

\* lines 48-50: the fallback for a name that is no key
Fallback[name \in Str] ==
    LET short == Remove[name, <<83,99,105,101,110,99,101,68,105,114,101,99,116,32,80,117,98,108,105,99,97,116,105,111,110,58,32>>]
    IN  IF Len(short) > 15 THEN SubSeq(short, 1, 15) ELSE short

AbbrOf[name \in Str] == IF Lookup[name] # <<>> THEN Lookup[name][1] ELSE Fallback[name]

get_journal_abbr(journal_name) == AbbrOf[Remove[journal_name, <<32,45,32,110,101,119,32,84,79,67>>]]

\* the character class [\x00-\x08\x0b\x0c\x0e-\x1f]
IsIllegalXmlChar(c) == c <= 8 \/ c = 11 \/ c = 12 \/ (c >= 14 /\ c <= 31)

\* re.sub(illegal_chars, '', text); "" for an empty text
remove_illegal_xml_chars(text) ==
    LET kept(c) == ~IsIllegalXmlChar(c)
    IN  SelectSeq(text, kept)

(***************************************************************************)
(* Query matcher                                                           *)
(***************************************************************************)
\* the inner loop over keywords, with its break on the first miss
AllKeywordsIn[keywords \in Seq(Str), text_to_search \in Str] ==
    IF keywords = <<>> THEN TRUE
    ELSE IF ~Contains[text_to_search, Head(keywords)] THEN FALSE
    ELSE AllKeywordsIn[Tail(keywords), text_to_search]

\* [k.strip().lower() for k in parts]
StripLowerAll[parts \in Seq(Str)] == [i \in 1..Len(parts) |-> Lower[Strip[parts[i]]]]

Keywords[query \in Str] == StripLowerAll[Split[query, <<65,78,68>>]]

\* the outer loop over queries, returning on the first query that matches
MatchLoop[text_to_search \in Str, qs \in Seq(Str)] ==
    IF qs = <<>> THEN FALSE
    ELSE IF AllKeywordsIn[Keywords[Head(qs)], text_to_search] THEN TRUE
    ELSE MatchLoop[text_to_search, Tail(qs)]

\* A variant whose match flag is decided by the last keyword of a query alone.
match_entry_LastKeyword(entry, qs) ==
    \E i \in 1..Len(qs) :
        Contains[Lower[entry.title \o <<32>> \o entry.summary],
                 Keywords[qs[i]][Len(Keywords[qs[i]])]]

match_entry(entry, qs) ==
    MatchLoop[Lower[entry.title \o <<32>> \o entry.summary], qs]

(***************************************************************************)
(* State                                                                   *)
(***************************************************************************)
VARIABLES
    rss_urls,           \* main: load_config('journals.dat', 'RSS_JOURNALS')
    queries,            \* main: load_config('keywords.dat', 'RSS_KEYWORDS')
    OUTPUT_FILE,        \* filtered_feed.xml: [exists, bozo, entries] as the parser sees it
    run,                \* which invocation of main() this is
    pc,                 \* where main() is
    existing_entries,   \* main
    seen_ids,           \* main
    all_entries,        \* main
    new_count,          \* main
    url_i,              \* main: index of the url of `for url in rss_urls`
    attempt,            \* parse_rss: attempts made so far for the current url
    fetched_entries,    \* main
    entry_j,            \* main: index of the entry of `for entry in fetched_entries`
    log,                \* history: what this run has done, in order
    admitted,           \* history: ids appended as fresh entries, by any run so far
    mEntry,             \* match_entry's argument entry      (MatchSpec)
    mQueries,           \* match_entry's argument queries    (MatchSpec)
    mResult             \* match_entry's result, once called (MatchSpec)

vars == <<rss_urls, queries, OUTPUT_FILE, run, pc, existing_entries, seen_ids,
          all_entries, new_count, url_i, attempt, fetched_entries, entry_j, log,
          admitted, mEntry, mQueries, mResult>>

mainVars == <<rss_urls, queries, OUTPUT_FILE, run, pc, existing_entries, seen_ids,
              all_entries, new_count, url_i, attempt, fetched_entries, entry_j, log,
              admitted>>

matchVars == <<mEntry, mQueries, mResult>>

retries == 3

(***************************************************************************)
(* The environment: configurations, remote feeds, earlier output files     *)
(***************************************************************************)
ConfigUrls == { <<>>, <<"u1">>, <<"u1", "u2">> }

ConfigQueries == { <<>>, <<<<100,101,101,112,32,65,78,68,32,108,101,97,114,110,105,110,103>>>> }

NeuralNetworksTOC == <<83,99,105,101,110,99,101,68,105,114,101,99,116,32,80,117,98,108,105,99,97,116,105,111,110,58,32,78,101,117,114,97,108,32,78,101,116,119,111,114,107,115,32,45,32,110,101,119,32,84,79,67>>

EntryA == [id |-> <<65>>, link |-> <<104,116,116,112,58,47,47,97>>, title |-> <<68,101,101,112,32,108,101,97,114,110,105,110,103,32,111,102,32,65>>,
           summary |-> <<>>, published_parsed |-> <<4>>]

EntryB == [id |-> <<66>>, link |-> <<104,116,116,112,58,47,47,98>>, title |-> <<68,101,101,112,32,76,101,97,114,110,105,110,103>>,
           summary |-> <<110,101,116,115>>, published_parsed |-> <<5>>]

EntryB2 == [id |-> <<66>>, link |-> <<104,116,116,112,58,47,47,98,50>>, title |-> <<100,101,101,112,32,108,101,97,114,110,105,110,103,32,97,103,97,105,110>>,
            summary |-> <<>>, published_parsed |-> <<8>>]

EntryC == [id |-> <<67>>, link |-> <<104,116,116,112,58,47,47,99>>, title |-> <<71,114,97,112,104,115>>,
           summary |-> <<116,114,101,101,115>>, published_parsed |-> <<9>>]

\* no id, no summary, no published date, a form feed in the title
EntryD == [link |-> <<68>>, title |-> <<68,101,101,112,12>>, description |-> <<76,101,97,114,110,105,110,103>>,
           updated_parsed |-> <<3>>]

\* no link and no date at all
EntryE == [id |-> <<69>>, title |-> <<108,101,97,114,110,105,110,103>>, summary |-> <<68,69,69,80>>]

EntryF == [id |-> <<70>>, link |-> <<104,116,116,112,58,47,47,102>>, title |-> <<76,101,97,114,110,105,110,103,32,100,101,101,112,32,70>>,
           summary |-> <<>>, published_parsed |-> <<12>>]

\* what feedparser.parse(url) may yield when it does not raise
RemoteFeeds(url) ==
    IF url = "u1"
    THEN { [feed |-> [title |-> NeuralNetworksTOC], entries |-> <<EntryB, EntryA>>],
           [feed |-> [title |-> NeuralNetworksTOC], entries |-> <<EntryF, EntryB>>] }
    ELSE { [feed |-> [subtitle |-> <<110,111,32,116,105,116,108,101>>],
            entries |-> <<EntryC, EntryD, EntryB2, EntryE>>] }

OldA == [id |-> <<65>>, link |-> <<104,116,116,112,58,47,47,97>>, title |-> <<91,78,78,93,32,79,108,100,32,112,97,112,101,114>>,
         summary |-> <<111,108,100>>, author |-> <<78,101,117,114,97,108,32,78,101,116,119,111,114,107,115>>, published_parsed |-> <<6>>]

OldA2 == [id |-> <<65>>, link |-> <<104,116,116,112,58,47,47,97>>, title |-> <<91,78,78,93,32,79,108,100,32,112,97,112,101,114,44,32,97,103,97,105,110>>,
          summary |-> <<111,108,100>>, author |-> <<78,101,117,114,97,108,32,78,101,116,119,111,114,107,115>>, published_parsed |-> <<2>>]

OldCtl == [link |-> <<66>>, title |-> <<79,108,100,12,112,97,112,101,114>>, published_parsed |-> <<7>>]

\* filtered_feed.xml as a first invocation may find it: absent, well-formed,
\* well-formed with the same guid twice, or malformed (bozo) with or without
\* entries the parser could still recover.  Only a malformed file can hold
\* a character that XML forbids.
InitialFiles == {
    [exists |-> FALSE, bozo |-> FALSE, entries |-> <<>>],
    [exists |-> TRUE,  bozo |-> FALSE, entries |-> <<OldA>>],
    [exists |-> TRUE,  bozo |-> FALSE, entries |-> <<OldA, OldA2>>],
    [exists |-> TRUE,  bozo |-> TRUE,  entries |-> <<OldCtl>>],
    [exists |-> TRUE,  bozo |-> TRUE,  entries |-> <<>>] }

\* datetime.datetime.now(): later in a later run
Now == 10 + run

(***************************************************************************)
(* Feed fetcher and existing-output reader                                 *)
(***************************************************************************)
\* struct_time is <<>> for None, <<t>> otherwise
convert_struct_time_to_datetime(struct_time) ==
    IF struct_time = <<>> THEN Now ELSE struct_time[1]

\* parse_rss: the dict built from one entry of the feed
FetchedEntry(entry, journal_title) ==
    [title    |-> Get(entry, "title", <<>>),
     link     |-> Get(entry, "link", <<>>),
     pub_date |-> convert_struct_time_to_datetime(
                      Get(entry, "published_parsed", Get(entry, "updated_parsed", <<>>))),
     summary  |-> Get(entry, "summary", Get(entry, "description", <<>>)),
     journal  |-> journal_title,
     id       |-> Get(entry, "id", Get(entry, "link", <<>>))]

\* parse_rss: the body of one attempt that does not raise
ParsedEntries(feed) ==
    LET journal_title == Get(feed.feed, "title", <<85,110,107,110,111,119,110,32,74,111,117,114,110,97,108>>)
    IN  [k \in 1..Len(feed.entries) |-> FetchedEntry(feed.entries[k], journal_title)]

\* A variant of the retry loop that tries once more than `retries`.
MayAttempt_OneMore(n) == n <= retries

\* parse_rss: `for attempt in range(retries)` has another iteration
MayAttempt(n) == n < retries

\* get_existing_items: the dict built from one entry of the previous output
ExistingEntry(entry) ==
    [title    |-> Get(entry, "title", <<>>),
     link     |-> Get(entry, "link", <<>>),
     pub_date |-> convert_struct_time_to_datetime(Get(entry, "published_parsed", <<>>)),
     summary  |-> Get(entry, "summary", <<>>),
     journal  |-> Get(entry, "author", <<>>),
     id       |-> Get(entry, "id", Get(entry, "link", <<>>)),
     is_old   |-> TRUE]

\* get_existing_items: what it returns when the file exists and parsing does not
\* raise; the bozo test only prints a warning, the loop over feed.entries runs
\* either way
ExistingFromFeed(feed) == [k \in 1..Len(feed.entries) |-> ExistingEntry(feed.entries[k])]

(***************************************************************************)
(* Merge engine and serializer                                             *)
(***************************************************************************)
\* A variant that filters on the queries only and forgets the dedup set.
Admits_NoDedup(entry, seen, qs) == match_entry(entry, qs)

\* main: the fresh entry passes `if entry['id'] in seen_ids: continue` and
\* `if match_entry(entry, queries)`
Admits(entry, seen, qs) == ~(entry.id \in seen) /\ match_entry(entry, qs)

\* A variant without reverse=True: stable, ascending.
SortDesc_Ascending(items) ==
    LET n == Len(items)
        Rank(i) == Cardinality({ j \in 1..n : items[j].pub_date < items[i].pub_date })
                   + Cardinality({ j \in 1..i : items[j].pub_date = items[i].pub_date })
    IN  [p \in 1..n |-> items[CHOOSE i \in 1..n : Rank(i) = p]]

\* list.sort(key=pub_date, reverse=True) is stable: an item comes after every
\* item with a later date and after the items of its own date that stood
\* before it
SortDesc(items) ==
    LET n == Len(items)
        Rank(i) == Cardinality({ j \in 1..n : items[j].pub_date > items[i].pub_date })
                   + Cardinality({ j \in 1..i : items[j].pub_date = items[i].pub_date })
    IN  [p \in 1..n |-> items[CHOOSE i \in 1..n : Rank(i) = p]]

\* items[:MAX_ITEMS]
Truncated(sorted) ==
    SubSeq(sorted, 1, IF Len(sorted) < MAX_ITEMS THEN Len(sorted) ELSE MAX_ITEMS)

\* A variant that tags every item, historical or not.
DisplayTitle_TagAll(item) ==
    <<91>> \o get_journal_abbr(item.journal) \o <<93,32>> \o item.title

\* generate_rss_xml: the title before cleaning
DisplayTitle(item) ==
    IF ~Get(item, "is_old", FALSE)
    THEN <<91>> \o get_journal_abbr(item.journal) \o <<93,32>> \o item.title
    ELSE item.title

\* generate_rss_xml: the rfeed Item built from one entry
RssItem(item) ==
    [title       |-> remove_illegal_xml_chars(DisplayTitle(item)),
     link        |-> item.link,
     description |-> remove_illegal_xml_chars(item.summary),
     author      |-> remove_illegal_xml_chars(item.journal),
     guid        |-> item.id,
     pubDate     |-> item.pub_date]

\* one written item as the parser gives it back to the next run
ReadBack(rss_item) ==
    [title            |-> rss_item.title,
     link             |-> rss_item.link,
     summary          |-> rss_item.description,
     author           |-> rss_item.author,
     id               |-> rss_item.guid,
     published_parsed |-> <<rss_item.pubDate>>]

\* the file that f.write(feed.rss()) leaves
WrittenFile(rss_items) ==
    [exists  |-> TRUE,
     bozo    |-> FALSE,
     entries |-> [k \in 1..Len(rss_items) |-> ReadBack(rss_items[k])]]

(***************************************************************************)
(* main()                                                                  *)
(***************************************************************************)
Init ==
    /\ rss_urls \in ConfigUrls
    /\ queries \in ConfigQueries
    /\ OUTPUT_FILE \in InitialFiles
    /\ run = 1
    /\ pc = "main"
    /\ existing_entries = <<>>
    /\ seen_ids = {}
    /\ all_entries = <<>>
    /\ new_count = 0
    /\ url_i = 1
    /\ attempt = 0
    /\ fetched_entries = <<>>
    /\ entry_j = 1
    /\ log = <<>>
    /\ admitted = {}
    /\ mEntry = [title |-> <<>>, summary |-> <<>>]
    /\ mQueries = <<>>
    /\ mResult = <<>>

\* A variant that aborts only when both lists are empty.
ConfigMissing_Both(urls, qs) == urls = <<>> /\ qs = <<>>

\* line 196: `not rss_urls or not queries`
ConfigMissing(urls, qs) == urls = <<>> \/ qs = <<>>

\* lines 196-198: the configuration is empty or missing
main_config_error ==
    /\ pc = "main"
    /\ ConfigMissing(rss_urls, queries)
    /\ pc' = "aborted"
    /\ UNCHANGED <<rss_urls, queries, OUTPUT_FILE, run, existing_entries, seen_ids,
                   all_entries, new_count, url_i, attempt, fetched_entries, entry_j,
                   log, admitted>>
    /\ UNCHANGED matchVars

\* lines 200-206, with get_existing_items (lines 110-137) returning `loaded`
Load(loaded, how) ==
    /\ existing_entries' = loaded
    /\ seen_ids' = { loaded[k].id : k \in 1..Len(loaded) }
    /\ all_entries' = loaded
    /\ new_count' = 0
    /\ url_i' = 1
    /\ attempt' = 0
    /\ log' = Append(log, [ev |-> "read", how |-> how])
    /\ pc' = IF rss_urls # <<>> THEN "parse_rss" ELSE "generate"
    /\ UNCHANGED <<rss_urls, queries, OUTPUT_FILE, run, fetched_entries, entry_j,
                   admitted>>
    /\ UNCHANGED matchVars

get_existing_items ==
    /\ pc = "main"
    /\ ~ConfigMissing(rss_urls, queries)
    /\ \/ /\ ~OUTPUT_FILE.exists
          /\ Load(<<>>, "absent")
       \/ /\ OUTPUT_FILE.exists
          /\ Load(ExistingFromFeed(OUTPUT_FILE), "parsed")
       \/ /\ OUTPUT_FILE.exists           \* feedparser.parse raises
          /\ Load(<<>>, "raised")

\* lines 86-88, 105-107: an attempt raises; sleep and go round the loop
parse_rss_raise ==
    /\ pc = "parse_rss"
    /\ MayAttempt(attempt)
    /\ attempt' = attempt + 1
    /\ log' = Append(log, [ev |-> "raise", url |-> url_i])
    /\ UNCHANGED <<rss_urls, queries, OUTPUT_FILE, run, pc, existing_entries, seen_ids,
                   all_entries, new_count, url_i, fetched_entries, entry_j, admitted>>
    /\ UNCHANGED matchVars

\* lines 86-104: an attempt parses the feed and returns its entries
parse_rss_return ==
    /\ pc = "parse_rss"
    /\ MayAttempt(attempt)
    /\ attempt' = attempt + 1
    /\ \E feed \in RemoteFeeds(rss_urls[url_i]) :
           /\ fetched_entries' = ParsedEntries(feed)
           /\ log' = Append(log, [ev |-> "ok", url |-> url_i, feed |-> feed])
    /\ entry_j' = 1
    /\ pc' = "merge"
    /\ UNCHANGED <<rss_urls, queries, OUTPUT_FILE, run, existing_entries, seen_ids,
                   all_entries, new_count, url_i, admitted>>
    /\ UNCHANGED matchVars

\* A variant in which the failure of a source ends the run.
AfterExhausted_Abort == "aborted"

\* line 108, `return []`: control is back in main's loop over the sources
AfterExhausted == "merge"

\* line 108: the loop is over, every attempt raised
parse_rss_exhausted ==
    /\ pc = "parse_rss"
    /\ ~MayAttempt(attempt)
    /\ fetched_entries' = <<>>
    /\ entry_j' = 1
    /\ log' = Append(log, [ev |-> "exhausted", url |-> url_i])
    /\ pc' = AfterExhausted
    /\ UNCHANGED <<rss_urls, queries, OUTPUT_FILE, run, existing_entries, seen_ids,
                   all_entries, new_count, url_i, attempt, admitted>>
    /\ UNCHANGED matchVars

\* lines 209-217: one entry of fetched_entries
merge_entry ==
    /\ pc = "merge"
    /\ entry_j <= Len(fetched_entries)
    /\ LET entry == fetched_entries[entry_j]
       IN  IF Admits(entry, seen_ids, queries)
           THEN /\ all_entries' = Append(all_entries, entry)
                /\ seen_ids' = seen_ids \cup {entry.id}
                /\ new_count' = new_count + 1
                /\ admitted' = admitted \cup {entry.id}
           ELSE UNCHANGED <<all_entries, seen_ids, new_count, admitted>>
    /\ entry_j' = entry_j + 1
    /\ UNCHANGED <<rss_urls, queries, OUTPUT_FILE, run, pc, existing_entries, url_i,
                   attempt, fetched_entries, log>>
    /\ UNCHANGED matchVars

\* line 207: fetched_entries is used up, on to the next url or to line 219
merge_next_url ==
    /\ pc = "merge"
    /\ entry_j > Len(fetched_entries)
    /\ url_i' = url_i + 1
    /\ attempt' = 0
    /\ pc' = IF url_i < Len(rss_urls) THEN "parse_rss" ELSE "generate"
    /\ UNCHANGED <<rss_urls, queries, OUTPUT_FILE, run, existing_entries, seen_ids,
                   all_entries, new_count, fetched_entries, entry_j, log, admitted>>
    /\ UNCHANGED matchVars

\* lines 152-190: sort in place, truncate, build the items, write the file
\* (sorted and items are bound to their values: the sort runs once)
generate_rss_xml ==
    /\ pc = "generate"
    /\ \E sorted \in {SortDesc(all_entries)} :
         \E items \in {Truncated(sorted)} :
           /\ all_entries' = sorted
           /\ OUTPUT_FILE' = WrittenFile([k \in 1..Len(items) |-> RssItem(items[k])])
    /\ log' = Append(log, [ev |-> "write"])
    /\ pc' = "done"
    /\ UNCHANGED <<rss_urls, queries, run, existing_entries, seen_ids, new_count,
                   url_i, attempt, fetched_entries, entry_j, admitted>>
    /\ UNCHANGED matchVars

\* the scheduler starts main() again; only the file and the configuration remain
next_run ==
    /\ pc \in {"done", "aborted"}
    /\ run < MaxRuns
    /\ run' = run + 1
    /\ pc' = "main"
    /\ existing_entries' = <<>>
    /\ seen_ids' = {}
    /\ all_entries' = <<>>
    /\ new_count' = 0
    /\ url_i' = 1
    /\ attempt' = 0
    /\ fetched_entries' = <<>>
    /\ entry_j' = 1
    /\ log' = <<>>
    /\ UNCHANGED <<rss_urls, queries, OUTPUT_FILE, admitted>>
    /\ UNCHANGED matchVars

Next ==
    \/ main_config_error
    \/ get_existing_items
    \/ parse_rss_raise
    \/ parse_rss_return
    \/ parse_rss_exhausted
    \/ merge_entry
    \/ merge_next_url
    \/ generate_rss_xml
    \/ next_run

Spec == Init /\ [][Next]_vars

\* main() runs to its end: every step it can take, it takes
LiveSpec == Spec /\ WF_vars(Next)

(***************************************************************************)
(* match_entry on its own: the arguments are drawn, then it is called      *)
(***************************************************************************)
MatchTitles == { <<>>, <<68,101,101,112,32,78,101,116,115>>, <<71,65,78>>, <<98,114,97,110,100,32,110,101,119>> }

MatchSummaries == { <<>>, <<108,101,97,114,110,105,110,103>>, <<77,97,99,104,105,110,101,32,76,69,65,82,78,73,78,71,44,32,100,101,101,112>>, <<100,32,101,32,101,32,112>> }

MatchQueryPool == {
    <<100,101,101,112,32,65,78,68,32,108,101,97,114,110,105,110,103>>,     \* two terms
    <<32,78,101,116,115,32,65,78,68,100,101,101,112>>,         \* no blanks around the delimiter, blanks to trim
    <<103,97,110>>,                   \* one term
    <<100,101,101,112,32,97,110,100,32,108,101,97,114,110,105,110,103>>,     \* a lower-case "and" is no delimiter
    <<66,82,65,78,68>>,                 \* the delimiter inside a word: terms "BR" and ""
    <<65,78,68>>,                   \* two empty terms
    <<100,101,101,112,32,65,78,68,32,9,32,65,78,68,32,103,97,110>> }  \* a blank term between two delimiters

RECURSIVE SeqsUpTo(_, _)
SeqsUpTo(S, n) ==
    IF n = 0 THEN { <<>> }
    ELSE LET shorter == SeqsUpTo(S, n - 1)
         IN  shorter \cup { Append(s, x) : s \in shorter, x \in S }

InitMatch ==
    /\ mEntry \in [title : MatchTitles, summary : MatchSummaries]
    /\ mQueries \in SeqsUpTo(MatchQueryPool, MaxQueries)
    /\ mResult = <<>>
    /\ rss_urls = <<>>
    /\ queries = <<>>
    /\ OUTPUT_FILE = [exists |-> FALSE, bozo |-> FALSE, entries |-> <<>>]
    /\ run = 1
    /\ pc = "match_entry"
    /\ existing_entries = <<>>
    /\ seen_ids = {}
    /\ all_entries = <<>>
    /\ new_count = 0
    /\ url_i = 1
    /\ attempt = 0
    /\ fetched_entries = <<>>
    /\ entry_j = 1
    /\ log = <<>>
    /\ admitted = {}

\* lines 139-150
match_entry_call ==
    /\ pc = "match_entry"
    /\ mResult = <<>>
    /\ mResult' = <<match_entry(mEntry, mQueries)>>
    /\ UNCHANGED <<mEntry, mQueries>>
    /\ UNCHANGED mainVars

MatchSpec == InitMatch /\ [][match_entry_call]_vars

(***************************************************************************)
(* What the specification says of the matcher, stated without the loops    *)
(***************************************************************************)
\* where the delimiter occurs in q
DelimiterAt(q) == { i \in 1..Len(q) : i + 2 <= Len(q) /\ SubSeq(q, i, i + 2) = <<65,78,68>> }

\* the terms of q: the stretches from the start or the end of one delimiter to
\* the start of the next delimiter or the end of q
TermsOf(q) ==
    LET starts == {1} \cup { i + 3 : i \in DelimiterAt(q) }
        ends   == {Len(q)} \cup { i - 1 : i \in DelimiterAt(q) }
    IN  { SubSeq(q, a, Min({ b \in ends : b + 1 >= a })) : a \in starts }

\* t without its leading and trailing white space
Trimmed(t) ==
    LET solid == { i \in 1..Len(t) : ~IsSpace(t[i]) }
    IN  IF solid = {} THEN <<>>
        ELSE SubSeq(t, Min(solid), CHOOSE i \in solid : \A k \in solid : k <= i)

QueryHolds(entry, q) ==
    \A t \in TermsOf(q) :
        Contains[Lower[entry.title \o <<32>> \o entry.summary], Lower[Trimmed(t)]]

Matches(entry, qs) == \E i \in 1..Len(qs) : QueryHolds(entry, qs[i])

(***************************************************************************)
(* Claims                                                                  *)
(***************************************************************************)
Ids(entries) == { entries[k].id : k \in 1..Len(entries) }

LoadedHow == IF log # <<>> /\ log[1].ev = "read" THEN log[1].how ELSE "none"

\* the events of the log that belong to source u
FetchLog(u) ==
    LET OfU(e) == e.ev \in {"raise", "ok", "exhausted"} /\ e.url = u
    IN  SelectSeq(log, OfU)

\* C1: the merged entry list holds no two entries with the same id.
C1_NoDuplicateIds ==
    pc \in {"merge", "generate"} =>
        \A a, b \in 1..Len(all_entries) :
            a # b => all_entries[a].id # all_entries[b].id

\* C1, for the runs that find no duplicate in the existing output: fresh
\* entries never introduce one.
C1_FreshAddNoDuplicate ==
    (pc \in {"merge", "generate"} /\ Cardinality(Ids(existing_entries)) = Len(existing_entries))
        => Cardinality(Ids(all_entries)) = Len(all_entries)

\* the number of positions of s that hold key k
Count(s, k) == Cardinality({ i \in 1..Len(s) : s[i] = k })

MergedKeys == [k \in 1..Len(all_entries) |->
                  <<all_entries[k].id, all_entries[k].pub_date>>]

WrittenKeys(file) == [k \in 1..Len(file.entries) |->
                         <<file.entries[k].id, file.entries[k].published_parsed[1]>>]

\* C2: the written entries are at most MAX_ITEMS of the merged entries, in
\* descending order of publication time, and no merged entry that was left out
\* is later than a written one.
C2_MostRecentKept ==
    [][pc = "generate" =>
        LET out == WrittenKeys(OUTPUT_FILE')
            merged == MergedKeys
        IN  /\ Len(out) <= MAX_ITEMS
            /\ Len(out) = Len(merged) \/ Len(out) = MAX_ITEMS
            /\ \A k \in 1..Len(out) - 1 : out[k][2] >= out[k + 1][2]
            /\ \A x \in Range(out) : Count(out, x) <= Count(merged, x)
            /\ \A x \in Range(merged) :
                   Count(merged, x) > Count(out, x) => \A y \in Range(out) : x[2] <= y[2]
    ]_vars

C2_Witness ==
    /\ pc = "done"
    /\ Len(all_entries) > MAX_ITEMS
    /\ Len(OUTPUT_FILE.entries) = MAX_ITEMS
    /\ \E k \in 1..Len(existing_entries) :
           existing_entries[k].pub_date > all_entries[Len(all_entries)].pub_date

\* C3: match_entry is true exactly when some query has all its AND-separated
\* terms, trimmed and lower-cased, in the lower-cased title + " " + summary; an
\* empty query list matches nothing.
C3_MatchEntry ==
    mResult # <<>> =>
        /\ mResult[1] = Matches(mEntry, mQueries)
        /\ mQueries = <<>> => mResult[1] = FALSE

C3_Witness ==
    /\ mResult = <<TRUE>>
    /\ Len(mQueries) = 2
    /\ ~QueryHolds(mEntry, mQueries[1])
    /\ Cardinality(TermsOf(mQueries[2])) = 2

\* C4: a historical entry is written with exactly the title it was loaded with.
C4_HistoricalTitleExact ==
    pc = "done" =>
        \A k \in 1..Len(OUTPUT_FILE.entries) :
            Get(all_entries[k], "is_old", FALSE) =>
                OUTPUT_FILE.entries[k].title = all_entries[k].title

\* C4, the part the code keeps: a historical entry is never given a tag, its
\* title is written as loaded but for the control characters; a fresh entry is
\* tagged.
C4_HistoricalNotTagged ==
    pc = "done" =>
        \A k \in 1..Len(OUTPUT_FILE.entries) :
            LET legal(c) == ~IsIllegalXmlChar(c)
                tag == <<91>> \o get_journal_abbr(all_entries[k].journal) \o <<93,32>>
            IN  OUTPUT_FILE.entries[k].title =
                    IF Get(all_entries[k], "is_old", FALSE)
                    THEN SelectSeq(all_entries[k].title, legal)
                    ELSE SelectSeq(tag \o all_entries[k].title, legal)

\* C5: parse_rss makes at most `retries` attempts, returns the entries of the
\* first attempt that does not raise and an empty list when all raise, and the
\* run goes on to the remaining sources either way.
C5_BoundedRetry ==
    /\ \A u \in 1..Len(rss_urls) :
           LET evs == FetchLog(u)
               attempts == { k \in 1..Len(evs) : evs[k].ev \in {"raise", "ok"} }
           IN  /\ Cardinality(attempts) <= retries
               /\ \A k \in 1..Len(evs) :
                      /\ evs[k].ev = "ok" => k = Len(evs)
                      /\ evs[k].ev = "exhausted" =>
                             /\ k = Len(evs)
                             /\ k = retries + 1
                             /\ \A m \in 1..k - 1 : evs[m].ev = "raise"
    /\ (pc = "merge" /\ log[Len(log)].ev = "ok") =>
           fetched_entries = ParsedEntries(log[Len(log)].feed)
    /\ (pc = "merge" /\ log[Len(log)].ev = "exhausted") => fetched_entries = <<>>
    /\ pc \in {"generate", "done"} =>
           \A u \in 1..Len(rss_urls) :
               FetchLog(u) # <<>> /\
               FetchLog(u)[Len(FetchLog(u))].ev \in {"ok", "exhausted"}
    /\ pc = "aborted" => log = <<>>

C5_Witness ==
    /\ pc = "done"
    /\ Len(rss_urls) = 2
    /\ FetchLog(1)[Len(FetchLog(1))].ev = "exhausted"
    /\ Len(FetchLog(2)) = retries
    /\ FetchLog(2)[retries].ev = "ok"
    /\ new_count > 0

\* C6: when the existing output is flagged as corrupted, the historical list
\* is empty.
C6_CorruptMeansNoHistory ==
    (pc \in {"parse_rss", "merge", "generate"} /\ OUTPUT_FILE.exists /\ OUTPUT_FILE.bozo)
        => existing_entries = <<>>

\* C7: a run with sources and queries ends by writing the output, exactly
\* once, after the one read of the existing output and after every source was
\* fetched or given up.
C7_WritesOnce ==
    /\ [](pc = "done" =>
            /\ log[1].ev = "read"
            /\ log[Len(log)].ev = "write"
            /\ \A k \in 1..Len(log) :
                   /\ log[k].ev = "read" => k = 1
                   /\ log[k].ev = "write" => k = Len(log)
            /\ \A u \in 1..Len(rss_urls) :
                   FetchLog(u) # <<>> /\
                   FetchLog(u)[Len(FetchLog(u))].ev \in {"ok", "exhausted"}
            /\ OUTPUT_FILE.exists)
    /\ (pc = "main" /\ rss_urls # <<>> /\ queries # <<>>) ~> (pc = "done")

C7_Witness ==
    /\ pc = "done"
    /\ run = 1
    /\ LoadedHow = "raised"
    /\ \A u \in 1..Len(rss_urls) : FetchLog(u)[Len(FetchLog(u))].ev = "exhausted"
    /\ Len(rss_urls) = 2
    /\ new_count = 0
    /\ OUTPUT_FILE.entries = <<>>

\* C8: with no source or no query the run reads nothing, fetches nothing and
\* writes nothing: the output file stays as it was.
C8_ConfigErrorTouchesNothing ==
    [][(rss_urls = <<>> \/ queries = <<>>) =>
          /\ OUTPUT_FILE' = OUTPUT_FILE
          /\ log' = <<>>
          /\ pc' \in {"main", "aborted"}
    ]_vars

C8_Witness ==
    /\ pc = "aborted"
    /\ run = 2
    /\ rss_urls # <<>>
    /\ queries = <<>>
    /\ OUTPUT_FILE.exists

\* C9: every existing entry is in the merged list, matching or not; a fresh
\* entry is appended, and its id recorded, exactly when its id is not yet in
\* the dedup set and it matches; otherwise list and dedup set stay as they are.
C9_MergeLoop ==
    /\ [](pc \in {"parse_rss", "merge", "generate"} =>
            /\ Len(existing_entries) <= Len(all_entries)
            /\ SubSeq(all_entries, 1, Len(existing_entries)) = existing_entries)
    /\ [][(pc = "merge" /\ entry_j <= Len(fetched_entries)) =>
            LET entry == fetched_entries[entry_j]
            IN  IF ~(entry.id \in seen_ids) /\ Matches(entry, queries)
                THEN /\ all_entries' = Append(all_entries, entry)
                     /\ seen_ids' = seen_ids \cup {entry.id}
                ELSE /\ all_entries' = all_entries
                     /\ seen_ids' = seen_ids
       ]_vars

C9_Witness ==
    /\ pc = "generate"
    /\ \E k \in 1..Len(existing_entries) : ~Matches(existing_entries[k], queries)
    /\ ~(<<67>> \in seen_ids)
    /\ Len(all_entries) >= Len(existing_entries) + 3
    /\ Len(rss_urls) = 2
    /\ \A u \in 1..2 : FetchLog(u)[Len(FetchLog(u))].ev = "ok"

\* C10: once an item was admitted as fresh, every later run that reads the
\* previous output back skips it when it is fetched again.
C10_AdmittedOnce ==
    [][(/\ pc = "merge"
        /\ run > 1
        /\ LoadedHow = "parsed"
        /\ entry_j <= Len(fetched_entries)
        /\ fetched_entries[entry_j].id \in admitted)
          => /\ fetched_entries[entry_j].id \in seen_ids
             /\ all_entries' = all_entries
    ]_vars

\* C10 as amended: an item that is still in the previous output is skipped
\* when fetched again and written back with the title it had there; any other
\* written item is a fresh one, tagged once on the title it was fetched with.
C10_TaggedOnce ==
    /\ [][(/\ pc = "merge"
           /\ run > 1
           /\ LoadedHow = "parsed"
           /\ entry_j <= Len(fetched_entries)
           /\ fetched_entries[entry_j].id \in Ids(OUTPUT_FILE.entries))
             => /\ fetched_entries[entry_j].id \in seen_ids
                /\ all_entries' = all_entries
       ]_vars
    /\ [][(pc = "generate" /\ run > 1 /\ LoadedHow = "parsed") =>
            \A k \in 1..Len(OUTPUT_FILE'.entries) :
                LET w == OUTPUT_FILE'.entries[k]
                    item == all_entries'[k]
                    legal(c) == ~IsIllegalXmlChar(c)
                IN  IF w.id \in Ids(OUTPUT_FILE.entries)
                    THEN /\ Get(item, "is_old", FALSE)
                         /\ \E m \in 1..Len(OUTPUT_FILE.entries) :
                                /\ OUTPUT_FILE.entries[m].id = w.id
                                /\ OUTPUT_FILE.entries[m].title = w.title
                    ELSE /\ w.id \in admitted
                         /\ w.title = SelectSeq(<<91>> \o get_journal_abbr(item.journal)
                                                \o <<93,32>> \o item.title, legal)
       ]_vars

C10_Witness ==
    /\ pc = "done"
    /\ run = 2
    /\ LoadedHow = "parsed"
    /\ \E k \in 1..Len(existing_entries) :
           /\ existing_entries[k].id \in admitted
           /\ existing_entries[k].id \in Ids(OUTPUT_FILE.entries)
           /\ StartsWith(existing_entries[k].title, <<91,78,78,93,32>>)
    /\ new_count > 0

=============================================================================
